---------------------------- MODULE Spec2Model ----------------------------
(***************************************************************************)
(* The product / review handlers of app/routers/products.py and            *)
(* app/routers/reviews.py over the tables of app/models.                   *)
(*                                                                         *)
(* The store is three tables.  Rows are never physically deleted by any    *)
(* handler, and primary keys are assigned in order, so a table is a        *)
(* sequence whose index is the row's id.  The content columns of a product *)
(* that the handlers only copy (name, description, price, image_url,       *)
(* stock) are carried by the one column `name`; comment and comment_date   *)
(* of a review, which no handler reads, are left out.  A rating is the     *)
(* exact quotient sum/count, kept in lowest terms.                         *)
(***************************************************************************)
EXTENDS Integers, Sequences, FiniteSets, TLC

(* ------------------------------ bounds -------------------------------- *)
MaxProducts == 2
MaxRatedProducts == 1
MaxRatedReviews == 3
MaxConcProducts == 1
MaxConcReviews == 2

(* ------------------------- program constants -------------------------- *)
GradeMin == 1
GradeMax == 5
HTTP_200_OK == 200
HTTP_201_CREATED == 201
HTTP_400_BAD_REQUEST == 400
HTTP_403_FORBIDDEN == 403
HTTP_404_NOT_FOUND == 404

VARIABLES categories, products, reviews, resp, sessions

vars == <<categories, products, reviews, resp, sessions>>

(* ------------------------------ inputs -------------------------------- *)
\* the ids of the category rows, and the ids a request may give: those and
\* one that names no row
CategoryIds == {1, 2}
CategoryIdInputs == CategoryIds \cup {3}
\* the users: two sellers and a buyer
SellerIds == {1, 2}
BuyerIds == {3}
\* the content columns take one value: the handlers copy them unread
Names == {"a"}
Grades == GradeMin..GradeMax
\* the grades requests are drawn from
GradeInputs == {3, 5}
\* two requests at a time, each with a session of its own
SessionIds == {1, 2}

(* ------------------------------ ratings ------------------------------- *)
RECURSIVE GCD(_, _)
GCD(a, b) == IF b = 0 THEN a ELSE GCD(b, a % b)

\* the float n/d, as the fraction in lowest terms
Rat(n, d) == [num |-> n \div GCD(n, d), den |-> d \div GCD(n, d)]

Zero == [num |-> 0, den |-> 1]
NULL == [num |-> 0, den |-> 0]

RECURSIVE SumGrades(_)
SumGrades(rs) == IF rs = <<>> THEN 0 ELSE Head(rs).grade + SumGrades(Tail(rs))

\* the rows of `revs` the WHERE clause of update_product_rating keeps
RatedReviews(revs, product_id) ==
    SelectSeq(revs, LAMBDA r : r.product_id = product_id /\ r.is_active)

\* faulty variant: the average taken without the is_active == True condition
avg_grade_of_all(revs, product_id) ==
    LET rs == SelectSeq(revs, LAMBDA r : r.product_id = product_id)
    IN  IF rs = <<>> THEN NULL ELSE Rat(SumGrades(rs), Len(rs))

\* select(func.avg(ReviewModel.grade)).where(product_id == .., is_active == True)
avg_grade(revs, product_id) ==
    LET rs == RatedReviews(revs, product_id)
    IN  IF rs = <<>> THEN NULL ELSE Rat(SumGrades(rs), Len(rs))

\* result.scalar() or 0.0
scalar_or_zero(v) == IF v = NULL \/ v.num = 0 THEN Zero ELSE v

\* update_product_rating: the value written to product.rating
avg_rating(revs, product_id) == scalar_or_zero(avg_grade(revs, product_id))

\* update_product_rating: product = db.get(..); product.rating = avg_rating
set_rating(prods, product_id, rating) ==
    [prods EXCEPT ![product_id].rating = rating]

update_product_rating(prods, revs, product_id) ==
    set_rating(prods, product_id, avg_rating(revs, product_id))

(* --------------------------- row predicates --------------------------- *)
\* faulty variant: the category looked up without the is_active == True condition
active_category_unfiltered(category_id) == category_id \in DOMAIN categories

\* select(CategoryModel).where(id == category_id, is_active == True).first()
active_category(category_id) ==
    category_id \in DOMAIN categories /\ categories[category_id].is_active

\* faulty variant: the category looked up without the id == category_id condition
any_category_unfiltered(category_id) == DOMAIN categories # {}

\* select(CategoryModel).where(id == category_id).first()
any_category(category_id) == category_id \in DOMAIN categories

\* select(ProductModel).where(id == product_id).first()
any_product(prods, product_id) == product_id \in DOMAIN prods

\* faulty variant: the product looked up without the is_active == True condition
active_product_unfiltered(prods, product_id) == product_id \in DOMAIN prods

\* select(ProductModel).where(id == product_id, is_active == True).first()
active_product(prods, product_id) ==
    product_id \in DOMAIN prods /\ prods[product_id].is_active

\* select(ReviewModel).where(id == review_id, is_active == True).first()
active_review(revs, review_id) ==
    review_id \in DOMAIN revs /\ revs[review_id].is_active

\* faulty variant: the ownership test left out
not_owner_unchecked(product, user_id) == FALSE

\* db_product.seller_id != current_user.id
not_owner(product, user_id) == product.seller_id # user_id

(* ------------------------------ schemas ------------------------------- *)
\* ProductSchema: the response leaves seller_id out
ProductSchema(p) ==
    [id |-> p.id, name |-> p.name, rating |-> p.rating,
     category_id |-> p.category_id, is_active |-> p.is_active]

ReviewSchema(r) ==
    [id |-> r.id, user_id |-> r.user_id, product_id |-> r.product_id,
     grade |-> r.grade, is_active |-> r.is_active]

\* order_by(desc(id)) of rows selected from a table, which is in id order
Descending(rows) == [i \in 1..Len(rows) |-> rows[Len(rows) + 1 - i]]

\* a query with no ORDER BY returns its rows in an order the store chooses
AnyOrder(rows) ==
    {[i \in 1..Len(rows) |-> rows[f[i]]] :
        f \in {g \in [1..Len(rows) -> 1..Len(rows)] :
                  \A i, j \in 1..Len(rows) : i # j => g[i] # g[j]}}

\* response_model=List[ProductSchema], List[ReviewSchema]
ProductSchemas(rows) == [i \in 1..Len(rows) |-> ProductSchema(rows[i])]

ReviewSchemas(rows) == [i \in 1..Len(rows) |-> ReviewSchema(rows[i])]

Response(op, status, req, body) ==
    [op |-> op, status |-> status, req |-> req, body |-> body]

\* a session (one request's AsyncSession) that holds no transaction
NoSession ==
    [pc |-> "idle", op |-> "none", status |-> 0, user_id |-> 0, product_id |-> 0,
     review_id |-> 0, grade |-> 0, avg |-> Zero, loaded |-> Zero,
     review_written |-> FALSE, rating_written |-> FALSE, during |-> {}]

(* ------------------------- products.py handlers ----------------------- *)
\* GET /products/
get_all_products ==
    /\ resp' = Response("get_all_products", HTTP_200_OK, [none |-> 0],
                 ProductSchemas(
                     Descending(SelectSeq(products, LAMBDA p : p.is_active))))
    /\ UNCHANGED <<categories, products, reviews, sessions>>

\* ProductModel(**product.model_dump(), seller_id=current_user.id)
new_product(prods, product, user_id) ==
    [id |-> Len(prods) + 1, name |-> product.name, is_active |-> TRUE,
     category_id |-> product.category_id, seller_id |-> user_id,
     rating |-> Zero]

\* POST /products/
create_product(product, current_user) ==
    LET req == [product |-> product, current_user |-> current_user]
    IN  /\ IF ~active_category(product.category_id)
           THEN /\ resp' = Response("create_product", HTTP_400_BAD_REQUEST, req, <<>>)
                /\ UNCHANGED products
           ELSE LET db_product == new_product(products, product, current_user)
                IN  /\ products' = Append(products, db_product)
                    /\ resp' = Response("create_product", HTTP_201_CREATED, req,
                                        <<ProductSchema(db_product)>>)
        /\ UNCHANGED <<categories, reviews, sessions>>

\* select(ProductModel).where(CategoryModel.id == category_id): the WHERE
\* clause names no column of products, so the FROM list is products x
\* categories and every product row is paired with the one category row
by_category_rows(prods, category_id) ==
    SelectSeq(prods, LAMBDA p : \E c \in DOMAIN categories : c = category_id)

\* GET /products/category/{category_id}
get_products_by_category(category_id) ==
    LET req == [category_id |-> category_id]
    IN  /\ IF ~active_category(category_id)
           THEN resp' = Response("get_products_by_category", HTTP_404_NOT_FOUND,
                                 req, <<>>)
           ELSE \E rows \in AnyOrder(by_category_rows(products, category_id)) :
                  resp' = Response("get_products_by_category", HTTP_200_OK, req,
                                   ProductSchemas(rows))
        /\ UNCHANGED <<categories, products, reviews, sessions>>

\* GET /products/products/{product_id}/reviews/
get_product_reviews(product_id) ==
    LET req == [product_id |-> product_id]
    IN  /\ IF ~any_product(products, product_id)
           THEN resp' = Response("get_product_reviews", HTTP_404_NOT_FOUND, req, <<>>)
           ELSE resp' = Response("get_product_reviews", HTTP_200_OK, req,
                          ReviewSchemas(
                              Descending(RatedReviews(reviews, product_id))))
        /\ UNCHANGED <<categories, products, reviews, sessions>>

\* GET /products/{product_id}?category_id=
get_product(product_id, category_id) ==
    LET req == [product_id |-> product_id, category_id |-> category_id]
    IN  /\ IF ~any_product(products, product_id)
           THEN resp' = Response("get_product", HTTP_404_NOT_FOUND, req, <<>>)
           ELSE IF ~any_category(category_id)
           THEN resp' = Response("get_product", HTTP_404_NOT_FOUND, req, <<>>)
           ELSE resp' = Response("get_product", HTTP_200_OK, req,
                                 <<ProductSchema(products[product_id])>>)
        /\ UNCHANGED <<categories, products, reviews, sessions>>

\* faulty variant: the update also writes the column default is_active = True
update_values_reactivating(prods, product_id, product) ==
    [prods EXCEPT ![product_id].name = product.name,
                  ![product_id].category_id = product.category_id,
                  ![product_id].is_active = TRUE]

\* update(ProductModel).where(id == product_id).values(**product.model_dump())
update_values(prods, product_id, product) ==
    [prods EXCEPT ![product_id].name = product.name,
                  ![product_id].category_id = product.category_id]

\* PUT /products/{product_id}
update_product(product_id, product, current_user) ==
    LET req == [product_id |-> product_id, product |-> product,
                current_user |-> current_user]
    IN  /\ IF ~any_product(products, product_id)
           THEN /\ resp' = Response("update_product", HTTP_404_NOT_FOUND, req, <<>>)
                /\ UNCHANGED products
           ELSE IF not_owner(products[product_id], current_user)
           THEN /\ resp' = Response("update_product", HTTP_403_FORBIDDEN, req, <<>>)
                /\ UNCHANGED products
           ELSE IF ~active_category(product.category_id)
           THEN /\ resp' = Response("update_product", HTTP_400_BAD_REQUEST, req, <<>>)
                /\ UNCHANGED products
           ELSE /\ products' = update_values(products, product_id, product)
                /\ resp' = Response("update_product", HTTP_200_OK, req,
                                    <<ProductSchema(products'[product_id])>>)
        /\ UNCHANGED <<categories, reviews, sessions>>

\* update(ProductModel).where(id == product_id).values(is_active=False)
deactivate_product(prods, product_id) ==
    [prods EXCEPT ![product_id].is_active = FALSE]

\* DELETE /products/{product_id}
delete_product(product_id, current_user) ==
    LET req == [product_id |-> product_id, current_user |-> current_user]
    IN  /\ IF ~active_product(products, product_id)
           THEN /\ resp' = Response("delete_product", HTTP_404_NOT_FOUND, req, <<>>)
                /\ UNCHANGED products
           ELSE IF not_owner(products[product_id], current_user)
           THEN /\ resp' = Response("delete_product", HTTP_403_FORBIDDEN, req, <<>>)
                /\ UNCHANGED products
           ELSE /\ products' = deactivate_product(products, product_id)
                /\ resp' = Response("delete_product", HTTP_200_OK, req,
                                    <<ProductSchema(products'[product_id])>>)
        /\ UNCHANGED <<categories, reviews, sessions>>

(* ------------------------- reviews.py handlers ------------------------ *)
\* GET /reviews/
get_all_reviews ==
    /\ resp' = Response("get_all_reviews", HTTP_200_OK, [none |-> 0],
                 ReviewSchemas(
                     Descending(SelectSeq(reviews, LAMBDA r : r.is_active))))
    /\ UNCHANGED <<categories, products, reviews, sessions>>

\* ReviewModel(**review.model_dump(), user_id=current_user.id)
new_review(revs, review, user_id) ==
    [id |-> Len(revs) + 1, grade |-> review.grade, is_active |-> TRUE,
     user_id |-> user_id, product_id |-> review.product_id]

\* POST /reviews/
create_review(review, current_user) ==
    LET req == [review |-> review, current_user |-> current_user]
    IN  /\ IF ~active_product(products, review.product_id)
           THEN /\ resp' = Response("create_review", HTTP_400_BAD_REQUEST, req, <<>>)
                /\ UNCHANGED <<products, reviews>>
           ELSE LET db_review == new_review(reviews, review, current_user)
                IN  \* the rating is recomputed and committed first, ...
                    /\ products' = update_product_rating(products, reviews,
                                                         review.product_id)
                    \* ... then the review row is added and committed
                    /\ reviews' = Append(reviews, db_review)
                    /\ resp' = Response("create_review", HTTP_201_CREATED, req,
                                        <<ReviewSchema(db_review)>>)
        /\ UNCHANGED <<categories, sessions>>

\* update(ReviewModel).where(id == review_id).values(is_active=False)
deactivate_review(revs, review_id) ==
    [revs EXCEPT ![review_id].is_active = FALSE]

\* DELETE /reviews/{review_id}
delete_review(review_id) ==
    LET req == [review_id |-> review_id]
    IN  /\ IF ~active_review(reviews, review_id)
           THEN /\ resp' = Response("delete_review", HTTP_404_NOT_FOUND, req, <<>>)
                /\ UNCHANGED <<products, reviews>>
           ELSE /\ reviews' = deactivate_review(reviews, review_id)
                /\ products' = update_product_rating(products, reviews',
                                                     reviews[review_id].product_id)
                /\ resp' = Response("delete_review", HTTP_200_OK, req, <<>>)
        /\ UNCHANGED <<categories, sessions>>

(* --------------------------- specification ---------------------------- *)
\* the category table: a row for every id of CategoryIds, active or not
CategoryTables == [CategoryIds -> [is_active : BOOLEAN]]

NoResponse == Response("none", 0, [none |-> 0], <<>>)

\* one request, whole, to a handler that writes the products table, from
\* the given sellers and names, while the table holds fewer rows than the cap
ProductWrites(sellers, names, maxProducts) ==
    \/ \E n \in names, c \in CategoryIdInputs, u \in sellers :
          /\ Len(products) < maxProducts
          /\ create_product([name |-> n, category_id |-> c], u)
    \/ \E p \in 1..(maxProducts + 1), n \in names, c \in CategoryIdInputs,
          u \in sellers :
          update_product(p, [name |-> n, category_id |-> c], u)
    \/ \E p \in 1..(maxProducts + 1), u \in sellers : delete_product(p, u)

\* one request to a handler that reads products
ProductReads(maxProducts) ==
    \/ get_all_products
    \/ \E c \in CategoryIdInputs : get_products_by_category(c)
    \/ \E p \in 1..(maxProducts + 1), c \in CategoryIdInputs : get_product(p, c)

\* one request to a handler that reads or writes reviews
ReviewRequests(grades, maxProducts, maxReviews) ==
    \/ \E p \in 1..(maxProducts + 1) : get_product_reviews(p)
    \/ get_all_reviews
    \/ \E p \in 1..(maxProducts + 1), g \in grades \cap Grades, u \in BuyerIds :
          /\ Len(reviews) < maxReviews
          /\ create_review([product_id |-> p, grade |-> g], u)
    \/ \E r \in 1..(maxReviews + 1) : delete_review(r)

Init ==
    /\ categories \in CategoryTables
    /\ products = <<>>
    /\ reviews = <<>>
    /\ resp = NoResponse
    /\ sessions = [s \in SessionIds |-> NoSession]

\* the products router: every seller, name and category table, no review
Next ==
    \/ ProductWrites(SellerIds, Names, MaxProducts)
    \/ ProductReads(MaxProducts)
    \/ \E p \in 1..(MaxProducts + 1) : get_product_reviews(p)

Spec == Init /\ [][Next]_vars

\* the reviews router and the handlers that write products: one seller, one
\* name, category 1 active and category 2 not
InitRating ==
    /\ categories = [c \in CategoryIds |-> [is_active |-> c = 1]]
    /\ products = <<>>
    /\ reviews = <<>>
    /\ resp = NoResponse
    /\ sessions = [s \in SessionIds |-> NoSession]

NextRating ==
    \/ ProductWrites({1}, {"a"}, MaxRatedProducts)
    \/ ReviewRequests(GradeInputs, MaxRatedProducts, MaxRatedReviews)

SpecRating == InitRating /\ [][NextRating]_vars

(* ------------- review requests as concurrent transactions ------------- *)
(* Each request runs in a session of its own (get_async_db) and its        *)
(* statements are separate awaits, so the statements of two requests       *)
(* interleave.  The store is read committed: a statement reads the         *)
(* committed rows and the session's own uncommitted writes, and an UPDATE  *)
(* of a row waits while another transaction holds an uncommitted write of  *)
(* that row.  products and reviews are the committed tables; a session's   *)
(* uncommitted writes are review_written (is_active=False of review_id)    *)
(* and rating_written (rating=avg of product_id).                          *)

\* the reviews table as session s reads it
session_reviews(s) ==
    IF sessions[s].review_written
    THEN deactivate_review(reviews, sessions[s].review_id)
    ELSE reviews

review_locked(s, review_id) ==
    \E t \in SessionIds \ {s} :
        sessions[t].review_written /\ sessions[t].review_id = review_id

rating_locked(s, product_id) ==
    \E t \in SessionIds \ {s} :
        sessions[t].rating_written /\ sessions[t].product_id = product_id

InFlight == {t \in SessionIds : sessions[t].pc # "idle"}

\* session s takes a request; the sessions in flight now run during it
begin(s, fields) ==
    [t \in SessionIds |->
        IF t = s THEN fields
        ELSE IF t \in InFlight
             THEN [sessions[t] EXCEPT !.during = @ \cup {s}]
             ELSE sessions[t]]

\* the session's request ends with `status`
finish(ses, status) ==
    [ses EXCEPT !.pc = "idle", !.status = status, !.avg = Zero,
                !.loaded = Zero, !.review_written = FALSE,
                !.rating_written = FALSE]

\* create_review: select(ProductModel).where(id, is_active == True)
create_review_select(s, review, current_user) ==
    /\ sessions[s].pc = "idle"
    /\ LET start == [NoSession EXCEPT !.op = "create_review",
                        !.user_id = current_user,
                        !.product_id = review.product_id,
                        !.grade = review.grade, !.during = InFlight]
       IN  IF ~active_product(products, review.product_id)
           THEN sessions' = begin(s, finish(start, HTTP_400_BAD_REQUEST))
           ELSE \* the product row is now in the session's identity map
                sessions' = begin(s, [start EXCEPT !.pc = "avg",
                               !.loaded = products[review.product_id].rating])
    /\ UNCHANGED <<categories, products, reviews, resp>>

\* delete_review: select(ReviewModel).where(id, is_active == True)
delete_review_select(s, review_id) ==
    /\ sessions[s].pc = "idle"
    /\ LET start == [NoSession EXCEPT !.op = "delete_review",
                        !.review_id = review_id, !.during = InFlight]
       IN  IF ~active_review(reviews, review_id)
           THEN sessions' = begin(s, finish(start, HTTP_404_NOT_FOUND))
           ELSE sessions' = begin(s, [start EXCEPT !.pc = "update",
                               !.product_id = reviews[review_id].product_id])
    /\ UNCHANGED <<categories, products, reviews, resp>>

\* delete_review: update(ReviewModel).where(id == review_id).values(is_active=False)
delete_review_update(s) ==
    /\ sessions[s].pc = "update"
    /\ ~review_locked(s, sessions[s].review_id)
    /\ sessions' = [sessions EXCEPT ![s].pc = "avg", ![s].review_written = TRUE]
    /\ UNCHANGED <<categories, products, reviews, resp>>

\* update_product_rating: the select of func.avg; db.get then reads the
\* product row, unless the session's identity map holds it (create_review)
rating_select(s) ==
    /\ sessions[s].pc = "avg"
    /\ sessions' = [sessions EXCEPT
          ![s].pc = IF sessions[s].op = "delete_review" THEN "get" ELSE "flush",
          ![s].avg = avg_rating(session_reviews(s), sessions[s].product_id)]
    /\ UNCHANGED <<categories, products, reviews, resp>>

\* update_product_rating: product = await db.get(ProductModel, product_id)
rating_get(s) ==
    /\ sessions[s].pc = "get"
    /\ sessions' = [sessions EXCEPT ![s].pc = "flush",
                       ![s].loaded = products[sessions[s].product_id].rating]
    /\ UNCHANGED <<categories, products, reviews, resp>>

\* update_product_rating: product.rating = avg_rating, and the flush of
\* db.commit(): an UPDATE of the product row when the attribute changed
rating_flush(s) ==
    /\ sessions[s].pc = "flush"
    /\ IF sessions[s].avg = sessions[s].loaded
       THEN sessions' = [sessions EXCEPT ![s].pc = "commit"]
       ELSE /\ ~rating_locked(s, sessions[s].product_id)
            /\ sessions' = [sessions EXCEPT ![s].pc = "commit",
                                            ![s].rating_written = TRUE]
    /\ UNCHANGED <<categories, products, reviews, resp>>

\* update_product_rating: the COMMIT of db.commit(); delete_review then
\* commits again, with nothing to write, and returns
rating_commit(s) ==
    /\ sessions[s].pc = "commit"
    /\ reviews' = session_reviews(s)
    /\ products' = IF sessions[s].rating_written
                   THEN set_rating(products, sessions[s].product_id,
                                   sessions[s].avg)
                   ELSE products
    /\ sessions' = [sessions EXCEPT ![s] =
          IF sessions[s].op = "delete_review"
          THEN finish(@, HTTP_200_OK)
          ELSE [@ EXCEPT !.pc = "insert", !.rating_written = FALSE]]
    /\ UNCHANGED <<categories, resp>>

\* create_review: db.add(db_review); db.commit().  The inserted row is
\* visible to no other session before the COMMIT and waits for no lock, so
\* the INSERT and the COMMIT are one step
create_review_insert(s) ==
    /\ sessions[s].pc = "insert"
    /\ reviews' = Append(reviews,
          new_review(reviews, [product_id |-> sessions[s].product_id,
                               grade |-> sessions[s].grade],
                     sessions[s].user_id))
    /\ sessions' = [sessions EXCEPT ![s] =
          finish([@ EXCEPT !.review_id = Len(reviews) + 1], HTTP_201_CREATED)]
    /\ UNCHANGED <<categories, products, resp>>

\* the reviews some session is about to insert
Inserting ==
    {t \in SessionIds : sessions[t].op = "create_review" /\ sessions[t].pc # "idle"}

NextConc ==
    \/ \E c \in CategoryIdInputs :
          /\ Len(products) < MaxConcProducts
          /\ create_product([name |-> "a", category_id |-> c], 1)
    \/ \E s \in SessionIds, p \in 1..(MaxConcProducts + 1),
          g \in GradeInputs \cap Grades, u \in BuyerIds :
          /\ Len(reviews) + Cardinality(Inserting) < MaxConcReviews
          /\ create_review_select(s, [product_id |-> p, grade |-> g], u)
    \/ \E s \in SessionIds, r \in 1..(MaxConcReviews + 1) :
          delete_review_select(s, r)
    \/ \E s \in SessionIds : delete_review_update(s)
    \/ \E s \in SessionIds : rating_select(s)
    \/ \E s \in SessionIds : rating_get(s)
    \/ \E s \in SessionIds : rating_flush(s)
    \/ \E s \in SessionIds : rating_commit(s)
    \/ \E s \in SessionIds : create_review_insert(s)

SpecConc == InitRating /\ [][NextConc]_vars

(* ------------------------------- claims ------------------------------- *)
\* What the claims speak of, stated over the tables alone.

ActiveReviewsOf(product_id) ==
    {i \in DOMAIN reviews :
        reviews[i].product_id = product_id /\ reviews[i].is_active}

RECURSIVE GradeSum(_)
GradeSum(ids) ==
    IF ids = {} THEN 0
    ELSE LET i == CHOOSE j \in ids : TRUE
         IN  reviews[i].grade + GradeSum(ids \ {i})

\* the arithmetic mean of grade over the active reviews of a product, 0.0 if none
MeanActiveGrade(product_id) ==
    LET ids == ActiveReviewsOf(product_id)
    IN  IF ids = {} THEN [num |-> 0, den |-> 1]
        ELSE Rat(GradeSum(ids), Cardinality(ids))

CategoryIsActive(c) == c \in DOMAIN categories /\ categories[c].is_active

Succeeded(r) == r.status \in {HTTP_200_OK, HTTP_201_CREATED}

BodyIds(r) == {r.body[i].id : i \in DOMAIN r.body}

\* C1: after a successful create_review or delete_review on product P has
\* returned, P.rating is the mean grade of P's active reviews (0.0 if none).
C1_RatingIsMeanAfterReviewMutation ==
    /\ (resp.op = "create_review" /\ Succeeded(resp)) =>
          products[resp.req.review.product_id].rating
              = MeanActiveGrade(resp.req.review.product_id)
    /\ (resp.op = "delete_review" /\ Succeeded(resp)) =>
          products[reviews[resp.req.review_id].product_id].rating
              = MeanActiveGrade(reviews[resp.req.review_id].product_id)

\* C2: a deactivated product's row stays: get_product with an existing
\* category returns it with is_active = false, and no product list
\* (get_all_products, get_products_by_category) returns it.
C2_DeactivatedProductKeptButUnlisted ==
    /\ (/\ resp.op = "get_product"
        /\ resp.req.product_id \in DOMAIN products
        /\ ~products[resp.req.product_id].is_active
        /\ resp.req.category_id \in DOMAIN categories) =>
          /\ resp.status = HTTP_200_OK
          /\ BodyIds(resp) = {resp.req.product_id}
          /\ ~resp.body[1].is_active
    /\ resp.op \in {"get_all_products", "get_products_by_category"} =>
          \A p \in BodyIds(resp) : products[p].is_active

\* C3: update_product or delete_product on an existing product by a seller
\* who does not own it answers 403 and leaves every product as it was.
C3_NotOwnerForbidden ==
    [][(/\ resp'.op \in {"update_product", "delete_product"}
        /\ resp'.req.product_id \in DOMAIN products
        /\ products[resp'.req.product_id].seller_id # resp'.req.current_user) =>
          (resp'.status = HTTP_403_FORBIDDEN /\ products' = products)]_vars

\* C3 as amended: the 403 is given by update_product on any existing
\* product and by delete_product on an existing product that is active;
\* delete_product on a deactivated product answers 404; the products are
\* left as they were in both cases.
C3_NotOwnerForbiddenOrGone ==
    [][(/\ resp'.op \in {"update_product", "delete_product"}
        /\ resp'.req.product_id \in DOMAIN products
        /\ products[resp'.req.product_id].seller_id # resp'.req.current_user) =>
          /\ products' = products
          /\ resp'.status =
                IF resp'.op = "delete_product"
                     /\ ~products[resp'.req.product_id].is_active
                THEN HTTP_404_NOT_FOUND
                ELSE HTTP_403_FORBIDDEN]_vars

C3_Witness ==
    /\ resp.op = "update_product"
    /\ resp.status = HTTP_403_FORBIDDEN
    /\ products[resp.req.product_id].seller_id # resp.req.current_user
    /\ products[resp.req.product_id].category_id # resp.req.product.category_id
    /\ CategoryIsActive(resp.req.product.category_id)

\* C4: create_product, and update_product by the owner, with a category_id
\* that names no active category answer 400 and leave the products as they
\* were; a product created or updated references a category that is active.
C4_InactiveCategoryRejected ==
    [][/\ (resp'.op = "create_product"
              /\ ~CategoryIsActive(resp'.req.product.category_id)) =>
             (resp'.status = HTTP_400_BAD_REQUEST /\ products' = products)
       /\ (/\ resp'.op = "update_product"
           /\ resp'.req.product_id \in DOMAIN products
           /\ products[resp'.req.product_id].seller_id = resp'.req.current_user
           /\ ~CategoryIsActive(resp'.req.product.category_id)) =>
             (resp'.status = HTTP_400_BAD_REQUEST /\ products' = products)
       /\ (resp'.op = "create_product" /\ Succeeded(resp')) =>
             /\ Len(products') = Len(products) + 1
             /\ CategoryIsActive(products'[Len(products')].category_id)
       /\ (resp'.op = "update_product" /\ Succeeded(resp')) =>
             CategoryIsActive(products'[resp'.req.product_id].category_id)]_vars

C4_Witness ==
    /\ resp.op = "update_product"
    /\ resp.status = HTTP_400_BAD_REQUEST
    /\ products[resp.req.product_id].seller_id = resp.req.current_user
    /\ resp.req.product.category_id \in DOMAIN categories
    /\ ~categories[resp.req.product.category_id].is_active

\* C5: create_review for a product id that names no product or an inactive
\* product answers 400, adds no review and changes no product's rating.
C5_ReviewOfInactiveProductRejected ==
    [][(/\ resp'.op = "create_review"
        /\ ~(/\ resp'.req.review.product_id \in DOMAIN products
             /\ products[resp'.req.review.product_id].is_active)) =>
          /\ resp'.status = HTTP_400_BAD_REQUEST
          /\ reviews' = reviews
          /\ DOMAIN products' = DOMAIN products
          /\ \A p \in DOMAIN products : products'[p].rating = products[p].rating]_vars

C5_Witness ==
    /\ resp.op = "create_review"
    /\ resp.status = HTTP_400_BAD_REQUEST
    /\ resp.req.review.product_id \in DOMAIN products
    /\ ~products[resp.req.review.product_id].is_active
    /\ ActiveReviewsOf(resp.req.review.product_id) # {}
    /\ products[resp.req.review.product_id].rating
          # MeanActiveGrade(resp.req.review.product_id)

\* C6: after a successful delete_review of a review of product P the review
\* is inactive and P.rating is the mean grade of P's reviews still active,
\* 0.0 when none is left.
C6_DeleteReviewRecomputesRating ==
    (resp.op = "delete_review" /\ Succeeded(resp)) =>
        /\ ~reviews[resp.req.review_id].is_active
        /\ products[reviews[resp.req.review_id].product_id].rating
              = MeanActiveGrade(reviews[resp.req.review_id].product_id)

\* grades 3, 3, 5 on one product, a grade-3 review deleted: rating 4.0
C6_Witness ==
    /\ resp.op = "delete_review"
    /\ Succeeded(resp)
    /\ reviews[resp.req.review_id].grade = 3
    /\ LET P == reviews[resp.req.review_id].product_id
       IN  /\ {reviews[i].grade : i \in ActiveReviewsOf(P)} = {3, 5}
           /\ Cardinality(ActiveReviewsOf(P)) = 2
           /\ products[P].rating = [num |-> 4, den |-> 1]

\* C7: get_product answers 404 whenever category_id names no category row,
\* and returns the product only when the product row and the category row
\* both exist.
C7_GetProductNeedsCategory ==
    resp.op = "get_product" =>
        /\ resp.req.category_id \notin DOMAIN categories =>
              resp.status = HTTP_404_NOT_FOUND
        /\ resp.status # HTTP_404_NOT_FOUND =>
              /\ resp.status = HTTP_200_OK
              /\ resp.req.product_id \in DOMAIN products
              /\ resp.req.category_id \in DOMAIN categories
              /\ BodyIds(resp) = {resp.req.product_id}
        /\ resp.status = HTTP_404_NOT_FOUND => resp.body = <<>>

C7_Witness ==
    /\ resp.op = "get_product"
    /\ resp.status = HTTP_404_NOT_FOUND
    /\ resp.req.category_id \notin DOMAIN categories
    /\ resp.req.product_id \in DOMAIN products
    /\ products[resp.req.product_id].is_active

\* C8: get_products_by_category(C) returns exactly the active products of
\* category C when C is an active category, and 404 otherwise.
C8_ByCategoryExact ==
    resp.op = "get_products_by_category" =>
        IF CategoryIsActive(resp.req.category_id)
        THEN /\ resp.status = HTTP_200_OK
             /\ BodyIds(resp) =
                   {p \in DOMAIN products :
                       /\ products[p].category_id = resp.req.category_id
                       /\ products[p].is_active}
        ELSE resp.status = HTTP_404_NOT_FOUND

\* C9, both cases: when two review mutations of one product (two
\* delete_review of different reviews, or a create_review and a
\* delete_review) have run during each other and both have committed, the
\* product's rating is the mean grade of its active reviews.
C9_ConcurrentMutationsKeepRating ==
    \A s, t \in SessionIds :
        (/\ s # t
         /\ sessions[s].pc = "idle" /\ sessions[t].pc = "idle"
         /\ t \in sessions[s].during /\ s \in sessions[t].during
         /\ sessions[s].op = "delete_review"
         /\ sessions[t].op \in {"delete_review", "create_review"}
         /\ Succeeded(sessions[s]) /\ Succeeded(sessions[t])
         /\ sessions[s].product_id = sessions[t].product_id
         /\ sessions[s].review_id # sessions[t].review_id) =>
            products[sessions[s].product_id].rating
                = MeanActiveGrade(sessions[s].product_id)

\* C9: two delete_review of different reviews of one product, run during each
\* other and both committed, leave the product's rating at the mean grade of
\* its active reviews (0 if none): the rating reflects no review that is no
\* longer active.
C9_ConcurrentDeletesKeepRating ==
    \A s, t \in SessionIds :
        (/\ s # t
         /\ sessions[s].pc = "idle" /\ sessions[t].pc = "idle"
         /\ t \in sessions[s].during /\ s \in sessions[t].during
         /\ sessions[s].op = "delete_review" /\ sessions[t].op = "delete_review"
         /\ Succeeded(sessions[s]) /\ Succeeded(sessions[t])
         /\ sessions[s].product_id = sessions[t].product_id
         /\ sessions[s].review_id # sessions[t].review_id) =>
            products[sessions[s].product_id].rating
                = MeanActiveGrade(sessions[s].product_id)

\* C10: no step removes a product or review row or sets is_active of one back
\* to true, and delete_product / delete_review of a row already inactive
\* answer 404 and change nothing.
C10_SoftDeleteMonotone ==
    [][/\ \A p \in DOMAIN products :
             /\ p \in DOMAIN products'
             /\ products'[p].id = products[p].id
             /\ ~products[p].is_active => ~products'[p].is_active
       /\ \A r \in DOMAIN reviews :
             /\ r \in DOMAIN reviews'
             /\ reviews'[r].id = reviews[r].id
             /\ ~reviews[r].is_active => ~reviews'[r].is_active
       /\ (/\ resp'.op = "delete_product"
           /\ resp'.req.product_id \in DOMAIN products
           /\ ~products[resp'.req.product_id].is_active) =>
             /\ resp'.status = HTTP_404_NOT_FOUND
             /\ products' = products /\ reviews' = reviews
       /\ (/\ resp'.op = "delete_review"
           /\ resp'.req.review_id \in DOMAIN reviews
           /\ ~reviews[resp'.req.review_id].is_active) =>
             /\ resp'.status = HTTP_404_NOT_FOUND
             /\ products' = products /\ reviews' = reviews]_vars

\* update_product has succeeded on a deactivated product
C10_Witness ==
    /\ resp.op = "update_product"
    /\ Succeeded(resp)
    /\ ~products[resp.req.product_id].is_active
    /\ \E r \in DOMAIN reviews : ~reviews[r].is_active

=============================================================================
